---------------------------- MODULE Spec2Model ----------------------------
(***************************************************************************)
(* A model of the yourcraft platformer core: the world built by loadGame,  *)
(* the frame loop of main (processInputs, doRender, events), the AABB      *)
(* resolution of playerCollision and the velocity rule of playerLimits.    *)
(*                                                                         *)
(* The C floats of the program hold integers only (every constant added    *)
(* to a position or a velocity is an integer well below 2^24), so they are *)
(* modelled as integers.                                                   *)
(***************************************************************************)
EXTENDS Integers, Sequences, FiniteSets

VARIABLES
    man,        \* GameState.man, a record with the fields of struct Man
    pc,         \* position in main's loop, or in a harness calling one function
    ret,        \* the value returned by the last playerCollision call of a harness
    obj,        \* the obstacle box a harness passes to playerCollision
    trace,      \* harness: the Man snapshots before and after each call
    frame,      \* number of completed events() calls so far, none of which saw a
                \* collision or left man.vy in the open band (5, 20); MaxFrames
                \* from then on, or once that many frames have passed
    written,    \* the Man fields that have been assigned so far
    done        \* main's done flag, as returned by the last processInputs

vars == << man, pc, ret, obj, trace, frame, written, done >>

---------------------------------------------------------------------------
(* Bounds of the model *)

\* coordinates of the boxes handed to playerCollision by the harness: 0..MaxCoord
MaxCoord == 3
\* velocities handed to playerLimits by the harness: -MaxVel..MaxVel
MaxVel == 26
\* frame counter saturation; window close, Escape, t and quit are explored
\* during the first MaxFrames frames
MaxFrames == 6
\* the game is explored while the actor is within MaxWalk of a spawn column
MaxWalk == 10
\* the jump key is explored while the actor's top is at or below MinY
MinY == 580
\* the game is explored while the actor's bottom edge is at or above MaxY
MaxY == 910

---------------------------------------------------------------------------
(* Program constants *)

PLATFORM_USED == 40
PLAT_SIZE == 100
PLAT_X0 == -200
PLAT_Y == 800
MAN_X == 960
MAN_Y == 540
MAN_SIZE_X == 100
MAN_SIZE_Y == 200
RESET_X == 500
RESET_Y == 500
VMAX == 20
VSNAP == 5
VDECAY == 5
GRAVITY_STEP == 4
KEY_DV == 10
ATT_LEFT == 50
ATT_RIGHT == 100

Pair(lo, hi) == [i \in 0..1 |-> IF i = 0 THEN lo ELSE hi]

Min(a, b) == IF a < b THEN a ELSE b
Max(a, b) == IF a > b THEN a ELSE b

---------------------------------------------------------------------------
(* collision.c: playerCollision *)

\* the strict (open interval) test every edge classification uses
BetweenClosed(lo, v, hi) == lo <= v /\ v <= hi
Between(lo, v, hi) == lo < v /\ v < hi

\* edge bottom / edge top
EdgeBottom(m, obj_y) ==
    \/ Between(m.cy[0], obj_y[1], m.cy[1])      \* bottomEnv
    \/ Between(obj_y[0], m.cy[1], obj_y[1])     \* bottomPla
EdgeTop(m, obj_y) ==
    \/ Between(m.cy[0], obj_y[0], m.cy[1])      \* topEnv
    \/ Between(obj_y[0], m.cy[0], obj_y[1])     \* topPla
\* "edge left" / "edge right"
EdgeRight(m, obj_x) ==
    \/ Between(m.cx[0], obj_x[1], m.cx[1])      \* rightEnv
    \/ Between(obj_x[0], m.cx[1], obj_x[1])     \* rightPla
EdgeLeft(m, obj_x) ==
    \/ Between(m.cx[0], obj_x[0], m.cx[1])      \* leftEnv
    \/ Between(obj_x[0], m.cx[0], obj_x[1])     \* leftPla

\* X axis: overlap_x and direction[0]
OverlapX(m, obj_x, obj_y) ==
    IF EdgeBottom(m, obj_y) \/ EdgeTop(m, obj_y)
    THEN IF m.cx[1] > obj_x[0] /\ m.cx[1] < obj_x[1]
         THEN [overlap |-> obj_x[0] - m.cx[1], direction |-> 1]
         ELSE IF m.cx[0] < obj_x[1] /\ m.cx[0] > obj_x[0]
         THEN [overlap |-> m.cx[0] - obj_x[1], direction |-> 2]
         ELSE [overlap |-> 0, direction |-> 0]
    ELSE [overlap |-> 0, direction |-> 0]

\* Y axis: overlap_y and direction[1]
OverlapY(m, obj_x, obj_y) ==
    IF EdgeLeft(m, obj_x) \/ EdgeRight(m, obj_x)
    THEN IF m.cy[1] > obj_y[0] /\ m.cy[1] < obj_y[1]
         THEN [overlap |-> obj_y[0] - m.cy[1], direction |-> 1]
         ELSE IF m.cy[0] < obj_y[1] /\ m.cy[0] > obj_y[0]
         THEN [overlap |-> m.cy[0] - obj_y[1], direction |-> 2]
         ELSE [overlap |-> 0, direction |-> 0]
    ELSE [overlap |-> 0, direction |-> 0]

\* the two branch conditions of "apply collision to the most overlaped"
BranchXMostOverlap(overlap_x, overlap_y) == overlap_x < overlap_y \/ overlap_y = 0
BranchX(overlap_x, overlap_y) == overlap_x > overlap_y \/ overlap_y = 0
BranchY(overlap_x, overlap_y) == overlap_y > overlap_x \/ overlap_x = 0

\* the whole call: the Man it leaves and the value it returns
PlayerCollision(m, obj_x, obj_y) ==
    LET ox == OverlapX(m, obj_x, obj_y)
        oy == OverlapY(m, obj_x, obj_y)
    IN  IF ox.overlap = 0 /\ oy.overlap = 0
        THEN [man |-> m, ret |-> 0]
        ELSE IF BranchX(ox.overlap, oy.overlap)
        THEN IF ox.direction = 1
             THEN [man |-> [m EXCEPT !.x = obj_x[0] - m.size_x,
                                     !.vx = IF m.vx > 0 THEN 0 ELSE m.vx],
                   ret |-> 1]
             ELSE IF ox.direction = 2
             THEN [man |-> [m EXCEPT !.x = obj_x[1],
                                     !.vx = IF m.vx < 0 THEN 0 ELSE m.vx],
                   ret |-> 2]
             ELSE [man |-> m, ret |-> 0]
        ELSE IF BranchY(ox.overlap, oy.overlap)
        THEN IF oy.direction = 1
             THEN [man |-> [m EXCEPT !.y = obj_y[0] - m.size_y,
                                     !.vy = IF m.vy > 0 THEN 0 ELSE m.vy],
                   ret |-> 3]
             ELSE IF oy.direction = 2
             THEN [man |-> [m EXCEPT !.y = obj_y[1],
                                     !.vy = IF m.vy < 0 THEN 0 ELSE m.vy],
                   ret |-> 4]
             ELSE [man |-> m, ret |-> 0]
        ELSE [man |-> m, ret |-> 0]

---------------------------------------------------------------------------
(* game.c: playerLimits *)

\* hard clamp, the same code for vx and vy
ClampV(v) == IF v > VMAX THEN VMAX ELSE IF v < -VMAX THEN -VMAX ELSE v

\* the flat decay step of vx
DecayVxBy4(v) ==
    IF v < VMAX /\ v > VSNAP THEN v - 4
    ELSE IF v > -VMAX /\ v < -VSNAP THEN v + 4
    ELSE v
DecayVx(v) ==
    IF v < VMAX /\ v > VSNAP THEN v - VDECAY
    ELSE IF v > -VMAX /\ v < -VSNAP THEN v + VDECAY
    ELSE v

\* the flat decay step of vy: its first test reads "vy > -5"
DecayVy(v) ==
    IF v < VMAX /\ v > -VSNAP THEN v - VDECAY
    ELSE IF v > -VMAX /\ v < -VSNAP THEN v + VDECAY
    ELSE v

\* snap to zero, the same code for vx and vy
SnapV(v) ==
    IF v <= VSNAP /\ v >= 0 THEN 0
    ELSE IF v >= -VSNAP /\ v <= 0 THEN 0
    ELSE v

PlayerLimits(m) ==
    [m EXCEPT !.vx = SnapV(DecayVx(ClampV(m.vx))),
              !.vy = SnapV(DecayVy(ClampV(m.vy)))]

---------------------------------------------------------------------------
(* game.c: loadGame *)

\* plat[i] as loadGame builds it (never assigned afterwards)
Plat(i) ==
    LET px == PLAT_X0 + PLAT_SIZE * i
    IN  [x |-> px, y |-> PLAT_Y, size_x |-> PLAT_SIZE, size_y |-> PLAT_SIZE,
         cx |-> Pair(px, px + PLAT_SIZE), cy |-> Pair(PLAT_Y, PLAT_Y + PLAT_SIZE)]

Fields == {"x", "y", "lookDirection", "cx", "cy", "size_x", "size_y",
           "vx", "vy", "attack", "att_sx", "att_sy", "att_x"}

\* the Man fields loadGame assigns; cx, cy, vx, vy and att_x are left as main's
\* stack holds them (att_y and the Keyboard flags are never used by any frame)
LoadGameWrites == {"x", "y", "lookDirection", "size_x", "size_y",
                   "attack", "att_sx", "att_sy"}

\* values an unset box coordinate, attack anchor or velocity may hold
GarbageBox == {0, 830}
GarbageVel == {-10, 0, 10}

\* the Man after loadGame, given what the unset fields hold
LoadGame(gcx, gcy, gvx, gvy, gatt) ==
    [x |-> MAN_X, y |-> MAN_Y, lookDirection |-> 1,
     size_x |-> MAN_SIZE_X, size_y |-> MAN_SIZE_Y,
     attack |-> 0, att_sx |-> 50, att_sy |-> 50,
     cx |-> gcx, cy |-> gcy, vx |-> gvx, vy |-> gvy, att_x |-> gatt]

---------------------------------------------------------------------------
(* game.c: events *)

\* the collision pass over plat[i..platform_used-1]; man.cx / man.cy are not
\* refreshed inside the loop
\* (each call's result is bound as a value before the loop goes on)
RECURSIVE CollideAll(_, _, _)
CollideAll(m, i, hit) ==
    IF i >= PLATFORM_USED
    THEN [man |-> m, hit |-> hit]
    ELSE CHOOSE pass \in
             { IF r.ret = 0
               THEN CollideAll(m, i + 1, hit)      \* a call returning 0 leaves man alone
               ELSE CollideAll(r.man, i + 1, TRUE)
               : r \in {PlayerCollision(m, Plat(i).cx, Plat(i).cy)} } : TRUE

\* recompute of the bounding box from the position
RefreshBox(m) ==
    [m EXCEPT !.cx = Pair(m.x, m.x + m.size_x),
              !.cy = Pair(m.y, m.y + m.size_y)]

Integrate(m) == [m EXCEPT !.x = m.x + m.vx, !.y = m.y + m.vy]

Gravity(m) == [m EXCEPT !.vy = m.vy + GRAVITY_STEP]

AttackAnchor(m) ==
    [m EXCEPT !.att_x = IF m.lookDirection = 0
                        THEN m.x - ATT_LEFT ELSE m.x + ATT_RIGHT]

\* what follows the collision pass in events
AfterCollisionsGravityFirst(m) ==
    AttackAnchor(PlayerLimits(Gravity(Integrate(RefreshBox(m)))))
AfterCollisions(m) == AttackAnchor(Gravity(PlayerLimits(Integrate(RefreshBox(m)))))

\* fields whose first access inside events is a read / fields events assigns
EventsReads == {"cx", "cy", "size_x", "size_y", "x", "y", "vx", "vy", "lookDirection"}
EventsWrites == {"cx", "cy", "x", "y", "vx", "vy", "att_x"}

\* the part of the world the model explores
InWindow(px) ==
    \/ (px - MAN_X <= MaxWalk /\ MAN_X - px <= MaxWalk)
    \/ (px - RESET_X <= MaxWalk /\ RESET_X - px <= MaxWalk)
InBounds(m) == InWindow(m.x) /\ m.y + m.size_y <= MaxY

Events ==
    /\ pc = "events"
    /\ \E c \in {CollideAll(man, 0, FALSE)} :
       \E m \in {AfterCollisions(c.man)} :
           /\ InBounds(m)
           /\ man' = m
           /\ frame' = IF frame < MaxFrames /\ ~c.hit
                          /\ ~(m.vy > VSNAP /\ m.vy < VMAX)
                       THEN frame + 1 ELSE MaxFrames
    /\ written' = written \cup EventsWrites
    /\ pc' = IF done = 1 THEN "exit" ELSE "processInputs"
    /\ UNCHANGED << ret, obj, trace, done >>

---------------------------------------------------------------------------
(* game.c: processInputs *)

Keys == {"A", "D", "SPACE", "L", "R"}
Polled == {"none", "WINDOWEVENT_CLOSE", "ESCAPE", "t", "QUIT"}

\* the keyboard-state part
ApplyKeys(m, keys) ==
    LET m1 == IF "A" \in keys
              THEN [m EXCEPT !.vx = m.vx - KEY_DV, !.lookDirection = 0] ELSE m
        m2 == IF "D" \in keys
              THEN [m1 EXCEPT !.vx = m1.vx + KEY_DV, !.lookDirection = 1] ELSE m1
        m3 == IF "SPACE" \in keys
              THEN [m2 EXCEPT !.vy = m2.vy - KEY_DV] ELSE m2
        m4 == [m3 EXCEPT !.attack = IF "L" \in keys THEN 1 ELSE 0]
    IN  IF "R" \in keys THEN [m4 EXCEPT !.x = RESET_X, !.y = RESET_Y] ELSE m4

\* the event loop: ESCAPE sets done and falls through to the printf of case SDLK_t
PollDone(ev) == IF ev \in {"WINDOWEVENT_CLOSE", "ESCAPE", "QUIT"} THEN 1 ELSE 0

\* fields processInputs reads before assigning them / fields it assigns
InputReads(ev, keys) ==
    (IF ev \in {"ESCAPE", "t"} THEN {"vx", "vy"} ELSE {})
    \cup (IF keys \cap {"A", "D"} # {} THEN {"vx"} ELSE {})
    \cup (IF "SPACE" \in keys THEN {"vy"} ELSE {})
InputWrites(keys) ==
    {"attack"}
    \cup (IF keys \cap {"A", "D"} # {} THEN {"vx", "lookDirection"} ELSE {})
    \cup (IF "SPACE" \in keys THEN {"vy"} ELSE {})
    \cup (IF "R" \in keys THEN {"x", "y"} ELSE {})

ProcessInputs(ev, keys) ==
    /\ pc = "processInputs"
    /\ ("SPACE" \in keys) => (man.y >= MinY)
    /\ (ev # "none") => (frame < MaxFrames)
    /\ man' = ApplyKeys(man, keys)
    /\ done' = PollDone(ev)
    /\ written' = written \cup InputWrites(keys)
    /\ pc' = "doRender"
    /\ UNCHANGED << ret, obj, trace, frame >>

---------------------------------------------------------------------------
(* render.c: doRender (draws; it assigns nothing) *)

RenderReads(m) ==
    {"x", "y", "size_x", "size_y"}
    \cup (IF m.attack # 0 THEN {"att_x", "att_sx", "att_sy"} ELSE {})

DoRender ==
    /\ pc = "doRender"
    /\ pc' = "events"
    /\ UNCHANGED << man, ret, obj, trace, frame, written, done >>

---------------------------------------------------------------------------
(* main.c: main: loadGame, then the frame loop *)

NoObj == [x |-> Pair(0, 0), y |-> Pair(0, 0)]

\* everything but man, as a game starts
GameStart ==
    /\ pc = "processInputs"
    /\ ret = 0
    /\ obj = NoObj
    /\ trace = << >>
    /\ frame = 0
    /\ written = LoadGameWrites
    /\ done = 0

\* main as it runs: the fields loadGame leaves unset hold whatever the stack held
Init ==
    /\ GameStart
    /\ \E c0, c1, c2, c3, gatt \in GarbageBox : \E gvx, gvy \in GarbageVel :
          man = LoadGame(Pair(c0, c1), Pair(c2, c3), gvx, gvy, gatt)

Next ==
    \/ \E ev \in Polled : \E keys \in SUBSET Keys : ProcessInputs(ev, keys)
    \/ DoRender
    \/ Events

Spec == Init /\ [][Next]_vars

\* the run of main in which the stack held zeros: vx = vy = 0 at the start
InitPlay ==
    /\ GameStart
    /\ man = LoadGame(Pair(0, 0), Pair(0, 0), 0, 0, 0)

SpecPlay == InitPlay /\ [][Next]_vars


---------------------------------------------------------------------------
(* The drop run: the actor placed at y = 0 with vx = vy = 0, no key ever held *)

InitDrop ==
    /\ GameStart
    /\ \E c0, c1, c2, c3, gatt \in GarbageBox :
          man = [LoadGame(Pair(c0, c1), Pair(c2, c3), 0, 0, gatt) EXCEPT !.y = 0]

NextDrop ==
    \/ ProcessInputs("none", {})
    \/ DoRender
    \/ Events

SpecDrop == InitDrop /\ [][NextDrop]_vars

\* main's loop never pauses: while !done it goes round again
FairDrop == SpecDrop /\ WF_vars(NextDrop)

---------------------------------------------------------------------------
(* One call of playerCollision on a box pair *)

Boxes == {b \in [0..1 -> 0..MaxCoord] : b[0] <= b[1]}
SmallVel == {-1, 0, 1}

\* a Man whose bounding box is bx, by and whose position and size agree with it
BoxMan(bx, by, vx, vy) ==
    [x |-> bx[0], y |-> by[0], lookDirection |-> 1,
     size_x |-> bx[1] - bx[0], size_y |-> by[1] - by[0],
     attack |-> 0, att_sx |-> 50, att_sy |-> 50,
     cx |-> bx, cy |-> by, vx |-> vx, vy |-> vy, att_x |-> bx[0] + ATT_RIGHT]

\* the box pair the specification's testable properties name
ExampleCx == Pair(100, 200)
ExampleCy == Pair(100, 300)
ExampleObj == [x |-> Pair(150, 250), y |-> Pair(280, 380)]

HarnessStart ==
    /\ ret = 0
    /\ trace = << man >>
    /\ frame = 0
    /\ written = Fields
    /\ done = 0

InitCollision ==
    /\ pc = "playerCollision"
    /\ \E vx, vy \in SmallVel :
          \/ \E bx, by, ox, oy \in Boxes :
                /\ man = BoxMan(bx, by, vx, vy)
                /\ obj = [x |-> ox, y |-> oy]
          \/ /\ man = BoxMan(ExampleCx, ExampleCy, vx, vy)
             /\ obj = ExampleObj
    /\ HarnessStart

CallCollision ==
    /\ pc = "playerCollision"
    /\ LET r == PlayerCollision(man, obj.x, obj.y)
       IN  /\ man' = r.man
           /\ ret' = r.ret
           /\ trace' = Append(trace, r.man)
    /\ pc' = "done"
    /\ UNCHANGED << obj, frame, written, done >>

NextCollision == CallCollision

SpecCollision == InitCollision /\ [][NextCollision]_vars

---------------------------------------------------------------------------
(* playerLimits called twice in succession on one velocity *)

InitLimits ==
    /\ pc = "playerLimits"
    /\ \E vx, vy \in (-MaxVel)..MaxVel :
          man = BoxMan(Pair(0, 0), Pair(0, 0), vx, vy)
    /\ obj = NoObj
    /\ HarnessStart

CallLimits ==
    /\ pc = "playerLimits"
    /\ man' = PlayerLimits(man)
    /\ trace' = Append(trace, man')
    /\ pc' = IF Len(trace) = 2 THEN "done" ELSE "playerLimits"
    /\ UNCHANGED << ret, obj, frame, written, done >>

NextLimits == CallLimits

SpecLimits == InitLimits /\ [][NextLimits]_vars


---------------------------------------------------------------------------
(* Properties *)

\* the Man a harness handed to its first call
pre == trace[1]

FLOOR_BOTTOM == PLAT_Y + PLAT_SIZE
FLOOR_LEFT == PLAT_X0
FLOOR_RIGHT == PLAT_X0 + PLAT_SIZE * PLATFORM_USED

\* C1: dropped from y = 0 with vx = vy = 0 and no key held, the actor comes to
\* rest: from some frame on, every state seen between two frames has
\* man.y = 800 - man.size_y and man.vy = 0.
C1_ComesToRest ==
    <>[](pc = "processInputs" => (man.y = PLAT_Y - man.size_y /\ man.vy = 0))

\* what C2 asks of the boxes: bottom edge strictly inside the platform's y-range,
\* top edge above the platform's top, x-spans sharing a positive width, and the
\* y-penetration smaller than the push-out needed along x
StandingCase ==
    /\ pre.vy > 0
    /\ obj.y[0] < pre.cy[1] /\ pre.cy[1] < obj.y[1]
    /\ pre.cy[0] < obj.y[0]
    /\ Min(pre.cx[1], obj.x[1]) - Max(pre.cx[0], obj.x[0]) > 0
    /\ pre.cy[1] - obj.y[0] < Min(pre.cx[1] - obj.x[0], obj.x[1] - pre.cx[0])

\* C2: a falling actor in the standing case (x-span equal to the platform's
\* included) gets 3 from playerCollision, with man.y = platform.y - man.size_y
\* and man.vy = 0; and a call returning 3 with vy <= 0 on entry leaves vy alone.
C2_StandingResolution ==
    pc = "done" =>
        /\ StandingCase =>
              (ret = 3 /\ man.y = obj.y[0] - man.size_y /\ man.vy = 0)
        /\ (ret = 3 /\ pre.vy <= 0) => man.vy = pre.vy

\* two [low, high] ranges with no common interior: apart or touching
Apart(a, b) == a[1] <= b[0] \/ b[1] <= a[0]

\* C3: boxes that are apart or touching on at least one axis get 0 from
\* playerCollision, and man.x, man.y, man.vx, man.vy (the whole Man) are unchanged.
C3_NoFalseCollision ==
    (pc = "done" /\ (Apart(pre.cx, obj.x) \/ Apart(pre.cy, obj.y)))
        => (ret = 0 /\ man = pre)

\* C3 witness: boxes touching along y (the actor's bottom on the obstacle's top)
\* whose x-spans share an interior, after the call.
C3_TouchingEdges ==
    /\ pc = "done"
    /\ pre.cy[0] < pre.cy[1] /\ pre.cy[1] = obj.y[0] /\ obj.y[0] < obj.y[1]
    /\ pre.cx[0] < obj.x[0] /\ obj.x[0] < pre.cx[1] /\ pre.cx[1] < obj.x[1]
    /\ ret = 0

\* the penetrations playerCollision computed for the harness's call
PenX == OverlapX(pre, obj.x, obj.y).overlap
PenY == OverlapY(pre, obj.x, obj.y).overlap

Abs(v) == IF v < 0 THEN -v ELSE v
Toward0(v, d) == IF v > 0 THEN v - d ELSE v + d
StatedRule(v) ==
    LET c == IF v > VMAX THEN VMAX ELSE IF v < -VMAX THEN -VMAX ELSE v
        d == IF Abs(c) > VSNAP /\ Abs(c) < VMAX THEN Toward0(c, VDECAY) ELSE c
    IN  IF Abs(d) <= VSNAP THEN 0 ELSE d

\* C5: playerLimits applies one and the same rule to vx and vy: clamp to +-20,
\* then magnitudes strictly between 5 and 20 move toward zero by 5, then
\* magnitudes <= 5 become 0; so a component with magnitude <= 5 on entry is 0.
C5_SameRuleBothAxes ==
    Len(trace) >= 2 =>
        /\ trace[2].vx = StatedRule(pre.vx)
        /\ trace[2].vy = StatedRule(pre.vy)

\* C6 as stated: playerLimits applied twice gives what it gives applied once,
\* for every velocity.
C6_Idempotent ==
    Len(trace) = 3 => (trace[3].vx = trace[2].vx /\ trace[3].vy = trace[2].vy)

\* velocities one application takes to 0 or to +-20
SettlesVx(v) == Abs(v) <= 2 * VDECAY \/ Abs(v) >= VMAX
SettlesVy(v) ==
    \/ (0 <= v /\ v <= 2 * VDECAY)
    \/ (-2 * VDECAY <= v /\ v <= -VSNAP)
    \/ Abs(v) >= VMAX

\* C6 amended: playerLimits applied twice gives what it gives applied once for
\* every vx with |vx| <= 10 or |vx| >= 20 and every vy in [0, 10], in [-10, -5]
\* or with |vy| >= 20 (the boundary values 0, +-5, +-20 among them).
C6_IdempotentOnceSettled ==
    Len(trace) = 3 =>
        /\ SettlesVx(pre.vx) => trace[3].vx = trace[2].vx
        /\ SettlesVy(pre.vy) => trace[3].vy = trace[2].vy

\* C6 witness: the boundary values 5 and -20, limited twice.
C6_BoundaryValuesTwice ==
    /\ Len(trace) = 3
    /\ pre.vx = VSNAP /\ pre.vy = -VMAX
    /\ trace[3].vx = 0 /\ trace[3].vy = -VMAX

\* C7 as stated: from vy = 0, with no collision and no key, man.vy after the
\* N-th frame is min(20, 4 * N) until vy enters the band (5, 20): 4, then 8.
C7_GravityAccumulates ==
    (pc = "processInputs" /\ 1 <= frame /\ frame < MaxFrames)
        => man.vy = Min(VMAX, GRAVITY_STEP * frame)

\* C7 amended: from vy = 0, with no key held, man.vy after the N-th frame is 4
\* for every N >= 1: the snap to 0 undoes each frame's gravity before the next.
C7_FallSpeedStaysAt4 ==
    (pc = "processInputs" /\ frame >= 1) => man.vy = GRAVITY_STEP

\* C7 witness: two frames without a collision have passed and vy is 4.
C7_SecondFrame ==
    /\ pc = "processInputs"
    /\ frame = 2
    /\ man.vy = GRAVITY_STEP
    /\ man.y = GRAVITY_STEP

\* C8: equal nonzero penetrations, or a zero X penetration with a nonzero Y
\* penetration, are resolved on the Y axis: playerCollision returns 3 or 4 and
\* puts man.y at obstacle.ymin - size_y or at obstacle.ymax.
C8_TieFavoursY ==
    (pc = "done" /\ PenY # 0 /\ (PenX = PenY \/ PenX = 0)) =>
        \/ (ret = 3 /\ man.y = obj.y[0] - pre.size_y)
        \/ (ret = 4 /\ man.y = obj.y[1])

\* C9: while the actor's x-span is within the floor's extent [-200, 3800], its
\* bottom edge man.y + man.size_y never goes below the floor's bottom, y = 900.
C9_NeverThroughFloor ==
    (FLOOR_LEFT <= man.x /\ man.x + man.size_x <= FLOOR_RIGHT)
        => man.y + man.size_y <= FLOOR_BOTTOM

\* the Man fields C10 names
FrameFields == {"vx", "vy", "cx", "cy", "x", "y", "size_x", "size_y", "lookDirection"}

\* C10: every Man field a frame reads (vx, vy, cx, cy, x, y, size_x, size_y,
\* lookDirection) has been assigned before it is read: whenever doRender or
\* events is about to run, the fields it reads have all been assigned.
C10_NoUnsetRead ==
    /\ pc = "doRender" => (RenderReads(man) \cap FrameFields) \subseteq written
    /\ pc = "events" => (EventsReads \cap FrameFields) \subseteq written

=============================================================================
